---- MODULE Spec2Model ----
(***************************************************************************)
(* Rellume: Function (block map, CFG stitching, phi fixpoint) and CallConv *)
(* (Pack / Unpack of the register file).  Values are IR values, written as *)
(* 4-tuples <<kind, x, y, z>>.                                             *)
(***************************************************************************)
EXTENDS Integers, Sequences, FiniteSets, TLC

VARIABLES conv, block_map, entry_addr, exit_block, regfile, phis, preds,
          term, pc, changed, order, passes, result, stores, loaded_vals,
          ret_val, pack_fx, unpack_fx, nlift, code,
          verify_ir, broken, cc_pc, cc_regfile, cc_written

vars == <<conv, block_map, entry_addr, exit_block, regfile, phis, preds,
          term, pc, changed, order, passes, result, stores, loaded_vals,
          ret_val, pack_fx, unpack_fx, nlift, code,
          verify_ir, broken, cc_pc, cc_regfile, cc_written>>

ccvars == <<cc_pc, cc_regfile, cc_written, loaded_vals, ret_val, pack_fx,
           unpack_fx>>

\* ---------------------------------------------------------------- bounds
NumAddrs == 3
MaxLifts == 2
MaxWrites == 2

\* ------------------------------------------------------------ identities
Addrs == 1..NumAddrs
UnseenAddr == NumAddrs + 1
ENTRY == 0
EXIT == -1
NoAddr == -2
Blocks == Addrs \cup {ENTRY, EXIT}
PhiBlocks == Addrs \cup {EXIT}

CallConvs == {"SPTR", "HHVM"}

LLReg(rt, ri) == <<rt, ri>>
RIP == LLReg("IP", 0)

NoVal == <<"none", 0, 0, 0>>
ConstInt(a) == <<"const", a, 0, 0>>
DynVal(b) == <<"dyn", b, 0, 0>>
SelectInst(c, t, f) == <<"select", c, t, f>>
LoadInst(off, width) == <<"load", off, width, 0>>
Argument(idx) == <<"arg", idx, 0, 0>>
DefVal(b, n) == <<"def", b, n, 0>>

\* ------------------------------------------------- register-state layout
NumGP == 16
NumFlags == 2
NumXMM == 1
GPBase == 8
FlagBase == 136
XMMBase == 144
CpuStructSize == 400

cpu_struct_entries ==
    <<[off |-> 0, reg |-> RIP, facet |-> 64]>>
    \o [i \in 1..NumGP |->
          [off |-> GPBase + 8 * (i - 1), reg |-> LLReg("GP64", i - 1), facet |-> 64]]
    \o [i \in 1..NumFlags |->
          [off |-> FlagBase + (i - 1), reg |-> LLReg("EFLAGS", i - 1), facet |-> 1]]
    \o [i \in 1..NumXMM |->
          [off |-> XMMBase + 16 * (i - 1), reg |-> LLReg("XMM", i - 1), facet |-> 128]]

NumEntries == Len(cpu_struct_entries)
Regs == {cpu_struct_entries[k].reg : k \in 1..NumEntries}
EntryOf(reg) == CHOOSE k \in 1..NumEntries : cpu_struct_entries[k].reg = reg
RegIdx == [r \in Regs |-> EntryOf(r)]

\* a register file: one value per (register, facet) of the table, NoVal when
\* the block holds no value for it
EmptyRegFile == [k \in 1..NumEntries |-> NoVal]
RegFileGet(rf, reg) == rf[RegIdx[reg]]
RegFileSet(rf, reg, v) == [rf EXCEPT ![RegIdx[reg]] = v]

\* ------------------------------------------------------------- CallConv
\* CpuStructParamIdx with the HHVM case off by one
CpuStructParamIdxNext(cc) == IF cc = "HHVM" THEN 2 ELSE 0

\* CallConv::CpuStructParamIdx
CpuStructParamIdx(cc) == IF cc = "HHVM" THEN 1 ELSE 0

FnTypeParams(cc) ==
    IF cc = "HHVM"
    THEN <<"i64", "i8p", "i64", "i64", "i64", "i64", "i64", "i64", "i64",
           "i64", "i64", "i64", "i64", "i64">>
    ELSE <<"i8p">>

FnTypeRet(cc) ==
    IF cc = "HHVM"
    THEN <<"i64", "i64", "i64", "i64", "i64", "i64", "i64", "i64", "i64",
           "i64", "i64", "i64", "i64", "i64">>
    ELSE <<>>

\* Pack: return-slot index of a register, -1 when it goes through sptr
PackInsIdx(cc, reg) ==
    IF cc # "HHVM" THEN -1
    ELSE IF reg = LLReg("IP", 0) THEN 0
    ELSE IF reg = LLReg("GP64", 0) THEN 8
    ELSE IF reg = LLReg("GP64", 1) THEN 5
    ELSE IF reg = LLReg("GP64", 2) THEN 4
    ELSE IF reg = LLReg("GP64", 3) THEN 1
    ELSE IF reg = LLReg("GP64", 4) THEN 13
    ELSE IF reg = LLReg("GP64", 5) THEN 11
    ELSE IF reg = LLReg("GP64", 6) THEN 3
    ELSE IF reg = LLReg("GP64", 7) THEN 2
    ELSE IF reg = LLReg("GP64", 8) THEN 6
    ELSE IF reg = LLReg("GP64", 9) THEN 7
    ELSE IF reg = LLReg("GP64", 10) THEN 9
    ELSE IF reg = LLReg("GP64", 11) THEN 10
    ELSE -1

\* Unpack: native argument index of a register, -1 when loaded through sptr
UnpackArgIdx(cc, reg) ==
    IF cc # "HHVM" THEN -1
    ELSE IF reg = LLReg("GP64", 0) THEN 10
    ELSE IF reg = LLReg("GP64", 1) THEN 7
    ELSE IF reg = LLReg("GP64", 2) THEN 6
    ELSE IF reg = LLReg("GP64", 3) THEN 2
    ELSE IF reg = LLReg("GP64", 4) THEN 3
    ELSE IF reg = LLReg("GP64", 5) THEN 13
    ELSE IF reg = LLReg("GP64", 6) THEN 5
    ELSE IF reg = LLReg("GP64", 7) THEN 4
    ELSE IF reg = LLReg("GP64", 8) THEN 8
    ELSE IF reg = LLReg("GP64", 9) THEN 9
    ELSE IF reg = LLReg("GP64", 10) THEN 11
    ELSE IF reg = LLReg("GP64", 11) THEN 12
    ELSE -1


\* UnpackEntry with RSP read from the argument of RBP (13 for 3)
UnpackEntryDup(cc, e) ==
    LET idx0 == UnpackArgIdx(cc, e.reg)
        arg_idx == IF idx0 = 3 THEN 13 ELSE idx0 IN
    IF cc = "HHVM" /\ arg_idx >= 0
    THEN [k |-> "arg", reg |-> e.reg, facet |-> e.facet, off |-> -1,
          idx |-> arg_idx, val |-> Argument(arg_idx)]
    ELSE [k |-> "load", reg |-> e.reg, facet |-> e.facet, off |-> e.off,
          idx |-> -1, val |-> LoadInst(e.off, e.facet)]

\* one table entry as Unpack handles it: where the register's value comes from
UnpackEntry(cc, e) ==
    LET arg_idx == UnpackArgIdx(cc, e.reg) IN
    IF cc = "HHVM" /\ arg_idx >= 0
    THEN [k |-> "arg", reg |-> e.reg, facet |-> e.facet, off |-> -1,
          idx |-> arg_idx, val |-> Argument(arg_idx)]
    ELSE [k |-> "load", reg |-> e.reg, facet |-> e.facet, off |-> e.off,
          idx |-> -1, val |-> LoadInst(e.off, e.facet)]

\* the loop of Unpack: its side effects, one per table entry, in table order
UnpackEffects(cc) ==
    [k \in 1..NumEntries |-> UnpackEntry(cc, cpu_struct_entries[k])]

RECURSIVE UnpackLoadedValsOnlyLoads(_)
\* UnpackLoadedVals with the push_back inside the if (reg_val == nullptr)
UnpackLoadedValsOnlyLoads(fx) ==
    IF Len(fx) = 0 THEN <<>>
    ELSE (IF fx[1].k = "load" THEN <<fx[1].val>> ELSE <<>>)
         \o UnpackLoadedValsOnlyLoads(Tail(fx))

\* loaded_vals->push_back(reg_val)
UnpackLoadedVals(fx) == [k \in 1..Len(fx) |-> fx[k].val]

\* regfile.SetReg(reg, facet, reg_val, false) for every effect of Unpack
RECURSIVE UnpackRegFile(_, _, _)
UnpackRegFile(rf, fx, i) ==
    IF i > Len(fx) THEN rf
    ELSE UnpackRegFile(RegFileSet(rf, fx[i].reg, fx[i].val), fx, i + 1)

\* PackEntry with the byte offset scaled by the facet's size
PackEntryScaled(cc, rf, e) ==
    LET reg_val == RegFileGet(rf, e.reg)
        ins_idx == PackInsIdx(cc, e.reg) IN
    IF cc = "HHVM" /\ ins_idx >= 0
    THEN [k |-> "insert", reg |-> e.reg, facet |-> e.facet, off |-> -1,
          idx |-> ins_idx, val |-> reg_val]
    ELSE [k |-> "store", reg |-> e.reg, facet |-> e.facet,
          off |-> e.off * (e.facet \div 8), idx |-> -1, val |-> reg_val]

\* one table entry as Pack handles it: return-slot insert or store via sptr
PackEntry(cc, rf, e) ==
    LET reg_val == RegFileGet(rf, e.reg)
        ins_idx == PackInsIdx(cc, e.reg) IN
    IF cc = "HHVM" /\ ins_idx >= 0
    THEN [k |-> "insert", reg |-> e.reg, facet |-> e.facet, off |-> -1,
          idx |-> ins_idx, val |-> reg_val]
    ELSE [k |-> "store", reg |-> e.reg, facet |-> e.facet, off |-> e.off,
          idx |-> -1, val |-> reg_val]

\* PackEffects walking the table from its end
PackEffectsReversed(cc, rf) ==
    [k \in 1..NumEntries |->
        PackEntry(cc, rf, cpu_struct_entries[NumEntries + 1 - k])]

\* the loop of Pack: its side effects, one per table entry, in table order
PackEffects(cc, rf) ==
    [k \in 1..NumEntries |-> PackEntry(cc, rf, cpu_struct_entries[k])]

NullInst == [k |-> "null", reg |-> RIP, facet |-> 0, off |-> -1,
             val |-> NoVal, removed |-> FALSE]

RECURSIVE PackStoreInstsOnlyStores(_)
\* PackStoreInsts with the push_back inside the if (store_in_sptr) block
PackStoreInstsOnlyStores(fx) ==
    IF Len(fx) = 0 THEN <<>>
    ELSE (IF fx[1].k = "store"
          THEN <<[k |-> "store", reg |-> fx[1].reg, facet |-> fx[1].facet,
                  off |-> fx[1].off, val |-> fx[1].val, removed |-> FALSE]>>
          ELSE <<>>) \o PackStoreInstsOnlyStores(Tail(fx))

\* PackStoreInsts without store_in_sptr = false: a store for every entry
PackStoreInstsAlways(fx) ==
    [k \in 1..Len(fx) |->
        [k |-> "store", reg |-> fx[k].reg, facet |-> fx[k].facet,
         off |-> cpu_struct_entries[k].off, val |-> fx[k].val,
         removed |-> FALSE]]

\* store_insts->push_back(store_inst): the store, or null for an insert
PackStoreInsts(fx) ==
    [k \in 1..Len(fx) |->
        IF fx[k].k = "store"
        THEN [k |-> "store", reg |-> fx[k].reg, facet |-> fx[k].facet,
              off |-> fx[k].off, val |-> fx[k].val, removed |-> FALSE]
        ELSE NullInst]

\* ret_val after the last CreateInsertValue: slot -> value (NoVal = undef)
PackRetVal(cc, fx) ==
    [s \in 0..(Len(FnTypeRet(cc)) - 1) |->
        IF \E k \in 1..Len(fx) : fx[k].k = "insert" /\ fx[k].idx = s
        THEN fx[CHOOSE k \in 1..Len(fx) :
                   /\ fx[k].k = "insert" /\ fx[k].idx = s
                   /\ \A j \in (k+1)..Len(fx) :
                          ~(fx[j].k = "insert" /\ fx[j].idx = s)].val
        ELSE NoVal]

\* ------------------------------------------------- RegFile / BasicBlock
PhiVal(b, k) == <<"phi", b, k, 0>>

NoPhi == [st |-> "none", ins |-> <<>>]
PendingPhi == [st |-> "pending", ins |-> <<>>]
NoPhis == [k \in 1..NumEntries |-> NoPhi]
AllPending == [k \in 1..NumEntries |-> PendingPhi]

\* the value a resolved passthrough placeholder was replaced by
Deref(ph, v) ==
    IF v[1] = "phi" /\ ph[v[2]][v[3]].st = "pass"
    THEN ph[v[2]][v[3]].ins[1]
    ELSE v

IsPendingVal(ph, v) == v[1] = "phi" /\ ph[v[2]][v[3]].st = "pending"

\* the loaded_vals of the ENTRY block, per calling convention
EntryLoadedVals ==
    [cc \in CallConvs |-> UnpackLoadedVals(UnpackEffects(cc))]

\* the register file of the ENTRY block, per calling convention: what Unpack
\* set
EntryRegFile ==
    [cc \in CallConvs |-> UnpackRegFile(EmptyRegFile, UnpackEffects(cc), 1)]

\* the local value block b holds for entry k, NoVal when it has none; the
\* EXIT block is only read (by Pack) and holds none
LocalVal(cc, rf, b, k) ==
    IF b = ENTRY THEN EntryRegFile[cc][k]
    ELSE IF b = EXIT THEN NoVal
    ELSE rf[b][k]

\* RegFile::GetReg on the register file of block b: the local value, or the
\* placeholder of the block
GetReg(cc, rf, b, k) ==
    IF LocalVal(cc, rf, b, k) # NoVal THEN LocalVal(cc, rf, b, k)
    ELSE PhiVal(b, k)

\* the value block p holds for entry k at its end, as the fill of a successor
\* sees it
PredVal(cc, rf, ph, p, k) ==
    LET w == LocalVal(cc, rf, p, k) IN
    IF w # NoVal
    THEN [ok |-> ~IsPendingVal(ph, w), v |-> Deref(ph, w)]
    ELSE IF ph[p][k].st \in {"none", "pending"}
    THEN [ok |-> FALSE, v |-> NoVal]
    ELSE [ok |-> TRUE, v |-> Deref(ph, PhiVal(p, k))]

\* the resolution of one placeholder from the values of the predecessors
Resolution(vals) ==
    IF Len(vals) = 1
    THEN [st |-> "pass", ins |-> vals]
    ELSE [st |-> "merge", ins |-> vals]

\* BasicBlock::FillPhis of block b: the placeholders after it, and whether
\* it made progress
FillPhis(cc, rf, pr, ph, b) ==
    LET P == pr[b]
        n == Len(P)
        pvs == [k \in 1..NumEntries |->
                  IF ph[b][k].st = "pending"
                  THEN [i \in 1..n |-> PredVal(cc, rf, ph, P[i], k)]
                  ELSE <<>>]
        rowb == [k \in 1..NumEntries |->
                  IF ph[b][k].st = "pending" /\ \A i \in 1..n : pvs[k][i].ok
                  THEN Resolution([i \in 1..n |-> pvs[k][i].v])
                  ELSE ph[b][k]]
        ph1 == [ph EXCEPT ![b] = rowb]
        predset == {P[i] : i \in 1..n}
        newph == [q \in PhiBlocks |->
                    IF q \in predset
                    THEN [k \in 1..NumEntries |->
                            IF /\ ph[b][k].st = "pending"
                               /\ ph1[q][k].st = "none"
                               /\ LocalVal(cc, rf, q, k) = NoVal
                            THEN PendingPhi
                            ELSE ph1[q][k]]
                    ELSE ph1[q]]
    IN [phis |-> newph, progress |-> newph # ph]

\* BasicBlock::BranchTo(next) / BranchTo(cond, then, else)
BranchTo(st, b, cond, targets) ==
    LET pr1 == [st.preds EXCEPT ![targets[1]] = Append(@, b)]
        pr2 == IF Len(targets) = 2
               THEN [pr1 EXCEPT ![targets[2]] = Append(@, b)]
               ELSE pr1
    IN [preds |-> pr2,
        term |-> [st.term EXCEPT ![b] =
                     Append(@, [cond |-> cond, succs |-> targets])]]

\* BasicBlock::RemoveUnmodifiedStores(entry)
RemoveUnmodifiedStores(sts, lv, ph) ==
    [i \in 1..Len(sts) |->
        IF /\ sts[i].k = "store"
           /\ i <= Len(lv)
           /\ Deref(ph, sts[i].val) = lv[i]
        THEN [sts[i] EXCEPT !.removed = TRUE]
        ELSE sts[i]]

\* ---------------------------------------------------------------- Lifter
\* decoded instructions: a register effect and a control-flow effect
Insts == { <<"def", "jcc">>, <<"def", "skip">>, <<"copy", "ind">>,
           <<"none", "loop">> }

Clip(a) == IF a > UnseenAddr THEN UnseenAddr ELSE a
GP(i) == LLReg("GP64", i)
ZF == LLReg("EFLAGS", 0)
iRIP == RegIdx[RIP]
iSrc == RegIdx[GP(0)]
iDst == RegIdx[GP(13)]
iZF == RegIdx[ZF]

\* the next-instruction-pointer value the lifter writes
NextRipOf(inst, a) ==
    CASE inst[2] = "skip" -> ConstInt(Clip(a + 2))
      [] inst[2] = "ind"  -> DynVal(a)
      [] inst[2] = "jcc"  -> SelectInst(a, Clip(a + 2), Clip(a + 1))
      [] inst[2] = "loop" -> SelectInst(a, 1, 0)

\* Lifter::Lift(inst) on the block at address a: register file afterwards
LifterRegFile(rf, a, inst) ==
    LET rf1 == CASE inst[1] = "def" ->
                      [rf EXCEPT ![a][iSrc] = DefVal(a, 0),
                                 ![a][iZF] = DefVal(a, 1)]
                 [] inst[1] = "copy" ->
                      [rf EXCEPT ![a][iDst] =
                          IF rf[a][iSrc] # NoVal THEN rf[a][iSrc]
                          ELSE PhiVal(a, iSrc)]
                 [] OTHER -> rf
    IN [rf1 EXCEPT ![a][iRIP] = NextRipOf(inst, a)]

\* the placeholders the reads of the instruction create in its block
LifterPhis(rf, ph, a, inst) ==
    IF inst[1] = "copy" /\ rf[a][iSrc] = NoVal /\ ph[a][iSrc].st = "none"
    THEN [ph EXCEPT ![a][iSrc] = PendingPhi]
    ELSE ph

\* operands of a select; code 0 stands for a non-constant operand
SelectOperand(c, opcode) == IF opcode = 0 THEN DynVal(c) ELSE ConstInt(opcode)
getCondition(v) == v[2]
getTrueValue(v) == SelectOperand(v[2], v[3])
getFalseValue(v) == SelectOperand(v[2], v[4])

\* -------------------------------------------------------------- Function
Perms(S) ==
    {f \in [1..Cardinality(S) -> S] :
        \A i, j \in 1..Cardinality(S) : f[i] = f[j] => i = j}

\* Function::Function: the ENTRY block is built, which unpacks the arguments
Init ==
    /\ conv \in CallConvs
    /\ code \in {c \in [Addrs -> Insts] : \A a \in Addrs : a > 2 => c[a] = c[2]}
    /\ block_map = {}
    /\ order = <<>>
    /\ entry_addr = NoAddr
    /\ exit_block = FALSE
    /\ regfile = [b \in Addrs |-> EmptyRegFile]
    /\ phis = [b \in PhiBlocks |-> NoPhis]
    /\ preds = [b \in PhiBlocks |-> <<>>]
    /\ term = [b \in Blocks |-> <<>>]
    /\ pc = "idle"
    /\ changed = FALSE
    /\ passes = 0
    /\ result = "none"
    /\ stores = <<>>
    /\ nlift = 0
    /\ verify_ir = FALSE
    /\ broken = FALSE
    /\ cc_pc = "off"
    /\ cc_regfile = EmptyRegFile
    /\ cc_written = {}
    /\ loaded_vals = <<>>
    /\ unpack_fx = <<>>
    /\ pack_fx = <<>>
    /\ ret_val = <<>>

\* NewEntryAddr without the test of block_map.size()
NewEntryAddrLast(bm, ea, block_addr) == block_addr

\* entry_addr after AddInst: the address of the first call
NewEntryAddr(bm, ea, block_addr) ==
    IF Cardinality(bm) = 0 THEN block_addr ELSE ea

\* Function::AddInst(block_addr, inst); the instruction is the one decoded at
\* that address.  Inserting a key may reorder the iteration of block_map.
AddInst(block_addr, inst) ==
    /\ pc = "idle"
    /\ cc_pc = "off"
    /\ entry_addr' = NewEntryAddr(block_map, entry_addr, block_addr)
    /\ block_map' = block_map \cup {block_addr}
    /\ IF block_addr \in block_map
       THEN order' = order
       ELSE order' \in Perms(block_map')
    /\ regfile' = LifterRegFile(regfile, block_addr, inst)
    /\ phis' = LifterPhis(regfile, phis, block_addr, inst)
    /\ UNCHANGED <<conv, exit_block, preds, term, pc, changed, passes,
                   result, stores, nlift, code, verify_ir, broken, ccvars>>

\* ResolveAddr without the dyn_cast: any value's payload taken as an address
ResolveAddrNoCast(bm, addr) ==
    IF addr[2] \in bm THEN addr[2] ELSE EXIT

\* ResolveAddr with block_map[addr] in place of find: no fallback to EXIT
ResolveAddrNoFind(bm, addr) ==
    IF addr[1] = "const" THEN addr[2] ELSE EXIT

\* Function::ResolveAddr(addr): the block a successor value resolves to
ResolveAddr(bm, addr) ==
    IF addr[1] = "const" /\ addr[2] \in bm THEN addr[2] ELSE EXIT

\* BasicBlock::NextRip()
NextRip(rf, b) == rf[b][iRIP]

\* StitchBlock with the two sides of the select exchanged
StitchBlockSwapped(bm, rf, st, b) ==
    LET next_rip == NextRip(rf, b) IN
    IF next_rip[1] = "select"
    THEN BranchTo(st, b, getCondition(next_rip),
                  <<ResolveAddr(bm, getFalseValue(next_rip)),
                    ResolveAddr(bm, getTrueValue(next_rip))>>)
    ELSE BranchTo(st, b, 0, <<ResolveAddr(bm, next_rip)>>)

\* one iteration of the stitching loop of Lift
StitchBlock(bm, rf, st, b) ==
    LET next_rip == NextRip(rf, b) IN
    IF next_rip[1] = "select"
    THEN BranchTo(st, b, getCondition(next_rip),
                  <<ResolveAddr(bm, getTrueValue(next_rip)),
                    ResolveAddr(bm, getFalseValue(next_rip))>>)
    ELSE BranchTo(st, b, 0, <<ResolveAddr(bm, next_rip)>>)

RECURSIVE StitchBlocksSkipFirst(_, _, _, _, _)
\* StitchBlocks starting at the second block of the iteration
StitchBlocksSkipFirst(ord, i, bm, rf, st) ==
    IF i > Len(ord) THEN st
    ELSE StitchBlocksSkipFirst(ord, i + 1, bm, rf,
            IF i = 1 THEN st ELSE StitchBlock(bm, rf, st, ord[i]))

RECURSIVE StitchBlocks(_, _, _, _, _)
\* the stitching loop of Lift over block_map in iteration order
StitchBlocks(ord, i, bm, rf, st) ==
    IF i > Len(ord) THEN st
    ELSE StitchBlocks(ord, i + 1, bm, rf, StitchBlock(bm, rf, st, ord[i]))

\* LiftIsEmpty without the check
LiftIsEmptyNever(bm) == FALSE

\* Lift returns nullptr right away when no instruction was added
LiftIsEmpty(bm) == Cardinality(bm) = 0

\* EntryTarget taking the first key of the map instead of entry_addr
EntryTargetFirstKey(bm, ea) == CHOOSE a \in bm : \A c \in bm : a <= c

\* the block ENTRY branches to: block_map[entry_addr]
EntryTarget(bm, ea) == ea

\* Function::Lift up to the fill loop: the empty check, the EXIT block (whose
\* construction packs the register file), ENTRY's branch and the stitching
LiftBegin ==
    /\ pc = "idle"
    /\ cc_pc = "off"
    /\ nlift < MaxLifts
    /\ nlift' = nlift + 1
    /\ verify_ir' = FALSE
    /\ broken' = FALSE
    /\ IF LiftIsEmpty(block_map)
       THEN /\ result' = "null"
            /\ UNCHANGED <<exit_block, phis, preds, term, pc, changed,
                           passes, stores>>
       ELSE LET exitrf == [k \in 1..NumEntries |->
                              GetReg(conv, regfile, EXIT, k)]
                fx == PackEffects(conv, exitrf)
                st0 == [preds |-> [preds EXCEPT ![EXIT] = <<>>],
                        term |-> [term EXCEPT ![EXIT] = <<>>]]
                st1 == BranchTo(st0, ENTRY, 0,
                               <<EntryTarget(block_map, entry_addr)>>)
                st2 == StitchBlocks(order, 1, block_map, regfile, st1)
            IN /\ exit_block' = TRUE
               /\ phis' = [phis EXCEPT ![EXIT] = AllPending]
               /\ stores' = PackStoreInsts(fx)
               /\ preds' = st2.preds
               /\ term' = st2.term
               /\ changed' = TRUE
               /\ passes' = 0
               /\ pc' = "fill"
               /\ result' = "none"
    /\ UNCHANGED <<conv, block_map, entry_addr, order, regfile, code, ccvars>>

\* the blocks one pass of the fill loop visits, in order
FillOrder(ord) == Append(ord, EXIT)

RECURSIVE FillBlocks(_, _, _, _, _, _)
FillBlocks(seq, i, cc, rf, pr, acc) ==
    IF i > Len(seq) THEN acc
    ELSE LET f == FillPhis(cc, rf, pr, acc.phis, seq[i]) IN
         FillBlocks(seq, i + 1, cc, rf, pr,
                    [phis |-> f.phis,
                     flags |-> Append(acc.flags, f.progress)])

\* PassChanged with only the first FillPhis of the pass or-ed in
PassChangedFirstOnly(old, flags) == flags[1]

\* PassChanged with = in place of |=: only the last FillPhis counts
PassChangedLastOnly(old, flags) == flags[Len(flags)]

\* PassChanged without the reset changed = false
PassChangedNoReset(old, flags) == old \/ \E i \in 1..Len(flags) : flags[i]

\* changed = false; changed |= ... for every block visited
PassChanged(old, flags) == \E i \in 1..Len(flags) : flags[i]

\* one iteration of while (changed)
FillPass ==
    /\ pc = "fill"
    /\ changed
    /\ LET res == FillBlocks(FillOrder(order), 1, conv, regfile, preds,
                             [phis |-> phis, flags |-> <<>>])
       IN /\ phis' = res.phis
          /\ changed' = PassChanged(changed, res.flags)
    /\ passes' = passes + 1
    /\ UNCHANGED <<conv, block_map, entry_addr, exit_block, regfile, preds,
                   term, pc, order, result, stores, nlift, code, verify_ir,
                   broken, ccvars>>

\* LiftResult without the test of cfg->verify_ir
LiftResultAlwaysVerified(vfy, brk) == IF brk THEN "null" ELSE "fn"

\* what Lift returns after the loop
LiftResult(vfy, brk) == IF vfy /\ brk THEN "null" ELSE "fn"

\* Function::Lift after the loop: dead stores at EXIT, verification, return
LiftEnd ==
    /\ pc = "fill"
    /\ ~changed
    /\ stores' = RemoveUnmodifiedStores(stores, EntryLoadedVals[conv], phis)
    /\ \E vfy \in BOOLEAN :
       \E brk \in BOOLEAN :
          /\ verify_ir' = vfy
          /\ broken' = brk
          /\ result' = LiftResult(vfy, brk)
    /\ pc' = "idle"
    /\ UNCHANGED <<conv, block_map, entry_addr, exit_block, regfile, phis,
                   preds, term, changed, order, passes, nlift, code, ccvars>>

\* ------------------------------------------- CallConv on one register file
\* a register file that is unpacked, possibly written, and packed again
InitCC ==
    /\ conv \in CallConvs
    /\ code = [a \in Addrs |-> <<"none", "loop">>]
    /\ block_map = {}
    /\ order = <<>>
    /\ entry_addr = NoAddr
    /\ exit_block = FALSE
    /\ regfile = [b \in Addrs |-> EmptyRegFile]
    /\ phis = [b \in PhiBlocks |-> NoPhis]
    /\ preds = [b \in PhiBlocks |-> <<>>]
    /\ term = [b \in Blocks |-> <<>>]
    /\ pc = "idle"
    /\ changed = FALSE
    /\ passes = 0
    /\ result = "none"
    /\ stores = <<>>
    /\ nlift = 0
    /\ verify_ir = FALSE
    /\ broken = FALSE
    /\ cc_pc = "start"
    /\ cc_regfile = EmptyRegFile
    /\ cc_written = {}
    /\ loaded_vals = <<>>
    /\ unpack_fx = <<>>
    /\ pack_fx = <<>>
    /\ ret_val = <<>>

fnvars == <<block_map, entry_addr, exit_block, regfile, phis, preds, term,
            pc, changed, order, passes, result, nlift, code, verify_ir,
            broken>>

\* CallConv::Unpack(regfile, fn, &loaded_vals)
CCUnpack ==
    /\ cc_pc = "start"
    /\ unpack_fx' = UnpackEffects(conv)
    /\ loaded_vals' = UnpackLoadedVals(unpack_fx')
    /\ cc_regfile' = UnpackRegFile(cc_regfile, unpack_fx', 1)
    /\ cc_pc' = "unpacked"
    /\ UNCHANGED <<conv, fnvars, stores, cc_written, ret_val, pack_fx>>

\* RegFile::SetReg by lifted code between Unpack and Pack
CCSetReg(k) ==
    /\ cc_pc = "unpacked"
    /\ Cardinality(cc_written) < MaxWrites
    /\ k \notin cc_written
    /\ cc_regfile' = [cc_regfile EXCEPT ![k] = DefVal(0, k)]
    /\ cc_written' = cc_written \cup {k}
    /\ UNCHANGED <<conv, fnvars, stores, cc_pc, loaded_vals, ret_val,
                   pack_fx, unpack_fx>>

\* CallConv::Pack(regfile, fn, &store_insts)
CCPack ==
    /\ cc_pc = "unpacked"
    /\ pack_fx' = PackEffects(conv, cc_regfile)
    /\ stores' = PackStoreInsts(pack_fx')
    /\ ret_val' = PackRetVal(conv, pack_fx')
    /\ cc_pc' = "packed"
    /\ UNCHANGED <<conv, fnvars, cc_regfile, cc_written, loaded_vals,
                   unpack_fx>>

NextCC ==
    \/ CCUnpack
    \/ \E k \in 1..NumEntries : CCSetReg(k)
    \/ CCPack

SpecCC == InitCC /\ [][NextCC]_vars

Next ==
    \/ \E a \in Addrs : AddInst(a, code[a])
    \/ LiftBegin
    \/ FillPass
    \/ LiftEnd

Spec == Init /\ [][Next]_vars

\* ---------------------------------------------------------------- claims
Resolved(p) == p.st \in {"pass", "merge"}

\* every block of block_map was stitched by at most one Lift
StitchedOnce == \A b \in block_map : Len(term[b]) <= 1

\* the values the successors of block b are resolved from
SuccValues(b) ==
    LET next_rip == NextRip(regfile, b) IN
    IF next_rip[1] = "select"
    THEN <<getTrueValue(next_rip), getFalseValue(next_rip)>>
    ELSE <<next_rip>>

\* C1: a Lift on a Function that never received an instruction returns the
\* failure indicator: it builds no EXIT block, stitches nothing and does not
\* enter the fill loop.
C1_EmptyLiftFails ==
    (nlift > 0 /\ block_map = {}) =>
        /\ result = "null"
        /\ pc = "idle"
        /\ ~exit_block
        /\ \A b \in Blocks : term[b] = <<>>
        /\ stores = <<>>

C1_Witness == nlift > 0 /\ block_map = {} /\ result = "null"

\* C2: every successor of a stitched block is the block registered for the
\* literal address the successor value carries, or the EXIT block when the
\* value is not a literal or no block is registered for it; it is never the
\* ENTRY block and never a block registered for another address.
C2_ResolveAddrPolicy ==
    pc = "fill" =>
        \A b \in block_map :
            LET t == term[b][Len(term[b])]
                vals == SuccValues(b) IN
            /\ Len(term[b]) > 0
            /\ Len(t.succs) = Len(vals)
            /\ \A i \in 1..Len(vals) :
                LET v == vals[i]
                    s == t.succs[i] IN
                /\ s # ENTRY
                /\ s \in block_map \cup {EXIT}
                /\ (v[1] = "const" /\ v[2] \in block_map) => s = v[2]
                /\ (v[1] = "const" /\ v[2] \notin block_map) => s = EXIT
                /\ v[1] # "const" => s = EXIT
                /\ s # EXIT => v = ConstInt(s)

C2_Witness ==
    /\ pc = "fill"
    /\ \E b \in block_map : \E i \in 1..Len(SuccValues(b)) :
          /\ SuccValues(b)[i][1] = "const"
          /\ SuccValues(b)[i][2] \in block_map
          /\ term[b][Len(term[b])].succs[i] = SuccValues(b)[i][2]
    /\ \E b \in block_map : \E i \in 1..Len(SuccValues(b)) :
          /\ SuccValues(b)[i][1] = "const"
          /\ SuccValues(b)[i][2] \notin block_map
          /\ term[b][Len(term[b])].succs[i] = EXIT
    /\ \E b \in block_map : \E i \in 1..Len(SuccValues(b)) :
          /\ SuccValues(b)[i][1] = "dyn"
          /\ term[b][Len(term[b])].succs[i] = EXIT

\* C3: under SPTR, Pack after Unpack stores, for every table entry whose
\* register was not written in between, exactly the value Unpack loaded for
\* it, with the same facet, at the byte offset it was loaded from; with no
\* write at all every entry is stored back unchanged.
C3_SptrRoundTrip ==
    (conv = "SPTR" /\ cc_pc = "packed") =>
        /\ Len(pack_fx) = NumEntries
        /\ Len(unpack_fx) = NumEntries
        /\ \A k \in 1..NumEntries :
            /\ unpack_fx[k].k = "load"
            /\ pack_fx[k].k = "store"
            /\ pack_fx[k].off = unpack_fx[k].off
            /\ pack_fx[k].off = cpu_struct_entries[k].off
            /\ pack_fx[k].facet = unpack_fx[k].facet
            /\ stores[k].k = "store" /\ stores[k].off = unpack_fx[k].off
            /\ k \notin cc_written =>
                  /\ pack_fx[k].val = unpack_fx[k].val
                  /\ pack_fx[k].val = LoadInst(pack_fx[k].off, pack_fx[k].facet)
                  /\ stores[k].val = loaded_vals[k]
            /\ k \in cc_written => pack_fx[k].val = DefVal(0, k)

C3_Witness ==
    /\ conv = "SPTR"
    /\ cc_pc = "packed"
    /\ cc_written = {}
    /\ \A k \in 1..NumEntries : stores[k].val = loaded_vals[k]

\* C4: under HHVM no two registers are read from the same argument position
\* by Unpack and no two registers are inserted into the same return slot by
\* Pack.
C4_HhvmInjective ==
    (conv = "HHVM" /\ cc_pc = "packed") =>
        \A i, j \in 1..NumEntries :
            /\ (/\ unpack_fx[i].k = "arg"
                /\ unpack_fx[j].k = "arg"
                /\ unpack_fx[i].idx = unpack_fx[j].idx) => i = j
            /\ (/\ pack_fx[i].k = "insert"
                /\ pack_fx[j].k = "insert"
                /\ pack_fx[i].idx = pack_fx[j].idx) => i = j

C4_Witness ==
    /\ conv = "HHVM"
    /\ cc_pc = "packed"
    /\ Cardinality({k \in 1..NumEntries : unpack_fx[k].k = "arg"}) >= 12
    /\ Cardinality({k \in 1..NumEntries : pack_fx[k].k = "insert"}) >= 12

\* the registers Unpack reads from an argument, and those Pack inserts into a
\* return slot
UnpackArgRegs == {unpack_fx[k].reg : k \in {i \in 1..Len(unpack_fx) :
                                              unpack_fx[i].k = "arg"}}
PackInsertRegs == {pack_fx[k].reg : k \in {i \in 1..Len(pack_fx) :
                                             pack_fx[i].k = "insert"}}

\* C5: under HHVM the registers Unpack reads from arguments are the registers
\* Pack inserts into return slots, the instruction pointer included.
C5_SameRegisterSet ==
    (conv = "HHVM" /\ cc_pc = "packed") =>
        /\ UnpackArgRegs = PackInsertRegs
        /\ RIP \in UnpackArgRegs

\* C6: Unpack and Pack handle every entry of the layout table exactly once,
\* in table order, under both conventions: the k-th side effect of each
\* concerns the register and facet of the k-th table entry.
C6_TableOrder ==
    /\ cc_pc \in {"unpacked", "packed"} =>
        /\ Len(unpack_fx) = NumEntries
        /\ Len(loaded_vals) = NumEntries
        /\ \A k \in 1..NumEntries :
            /\ unpack_fx[k].reg = cpu_struct_entries[k].reg
            /\ unpack_fx[k].facet = cpu_struct_entries[k].facet
    /\ cc_pc = "packed" =>
        /\ Len(pack_fx) = NumEntries
        /\ Len(stores) = NumEntries
        /\ \A k \in 1..NumEntries :
            /\ pack_fx[k].reg = cpu_struct_entries[k].reg
            /\ pack_fx[k].facet = cpu_struct_entries[k].facet
            /\ pack_fx[k].reg = unpack_fx[k].reg
            /\ pack_fx[k].facet = unpack_fx[k].facet
    /\ \A i, j \in 1..NumEntries :
          cpu_struct_entries[i].reg = cpu_struct_entries[j].reg => i = j

C6_Witness ==
    /\ cc_pc = "packed"
    /\ cc_written # {}
    /\ \E k \in 1..NumEntries : pack_fx[k].k = "insert"
    /\ \E k \in 1..NumEntries : pack_fx[k].k = "store"

\* placeholders not yet created count twice, pending ones once
Measure(ph) ==
    2 * Cardinality({bk \in PhiBlocks \X (1..NumEntries) :
                        ph[bk[1]][bk[2]].st = "none"})
    + Cardinality({bk \in PhiBlocks \X (1..NumEntries) :
                        ph[bk[1]][bk[2]].st = "pending"})

\* a resolved placeholder keeps its resolution; only the placeholders of the
\* EXIT block are new when a Lift builds a new EXIT block
NeverReopened ==
    \A b \in PhiBlocks : \A k \in 1..NumEntries :
        (Resolved(phis[b][k]) /\ ~(b = EXIT /\ nlift' # nlift))
            => phis'[b][k] = phis[b][k]

\* C7: the fill loop terminates on every block graph, cycles and self-loops
\* included: a resolved placeholder is never re-opened, a pass never undoes
\* a creation or a resolution, every pass after which the loop continues has
\* created or resolved at least one placeholder, and so the passes of one
\* Lift number at most one more than twice the placeholders there are.
C7_FixpointTerminates ==
    [][/\ NeverReopened
       /\ (pc = "fill" /\ passes' = passes + 1) =>
             /\ Measure(phis') <= Measure(phis)
             /\ changed' => Measure(phis') < Measure(phis)
             /\ passes' + Measure(phis')
                   <= 2 * NumEntries * Cardinality(PhiBlocks) + 1]_vars

C7_Witness ==
    /\ pc = "idle"
    /\ result = "fn"
    /\ passes >= 3
    /\ \E b \in block_map : \E i \in 1..Len(preds[b]) : preds[b][i] = b
    /\ \E b \in PhiBlocks : \E k \in 1..NumEntries : phis[b][k].st = "pending"

\* the program whose blocks form a diamond: 1 branches to 2 and 3, which
\* write different values and both leave to the join
DiamondCFG ==
    /\ entry_addr = 1
    /\ block_map = {1, 2, 3}
    /\ code[1] = <<"def", "jcc">>
    /\ code[2] = <<"def", "skip">>
    /\ StitchedOnce
    /\ pc = "fill"
    /\ passes >= 1

\* the value predecessor p holds for entry k
HeldVal(p, k) == PredVal(conv, regfile, phis, p, k).v

\* C8: a placeholder of a block with two or more predecessor edges resolves
\* to a merge with one input per edge, each the value that predecessor
\* holds, in predecessor order; in the diamond the join has exactly the two
\* edges from 2 and 3 and its placeholder is resolved by the first pass after
\* stitching.
C8_DiamondMerge ==
    /\ StitchedOnce =>
        \A b \in PhiBlocks : \A k \in 1..NumEntries :
            (Len(preds[b]) >= 2 /\ Resolved(phis[b][k])) =>
                /\ phis[b][k].st = "merge"
                /\ Len(phis[b][k].ins) = Len(preds[b])
                /\ \A i \in 1..Len(preds[b]) :
                      phis[b][k].ins[i] = HeldVal(preds[b][i], k)
    /\ DiamondCFG =>
        /\ Len(preds[EXIT]) = 2
        /\ {preds[EXIT][1], preds[EXIT][2]} = {2, 3}
        /\ phis[EXIT][iSrc] =
              [st |-> "merge",
               ins |-> <<DefVal(preds[EXIT][1], 0), DefVal(preds[EXIT][2], 0)>>]

C8_Witness ==
    /\ DiamondCFG
    /\ phis[EXIT][iSrc].st = "merge"
    /\ phis[EXIT][iSrc].ins[1] # phis[EXIT][iSrc].ins[2]
    /\ preds[EXIT] = <<3, 2>>

\* the entry-address block reads a register and no block branches to it
LoneEntryBlock ==
    /\ entry_addr \in block_map
    /\ code[entry_addr] = <<"copy", "ind">>
    /\ \A b \in block_map : \A i \in 1..Len(term[b]) :
          \A j \in 1..Len(term[b][i].succs) : term[b][i].succs[j] # entry_addr
    /\ StitchedOnce
    /\ pc = "fill"
    /\ passes >= 1

\* C9: a placeholder of a block with exactly one predecessor edge resolves
\* to that predecessor's value itself, with no merge node; the entry-address
\* block that nothing else branches to has ENTRY as its one predecessor and
\* reads the value Unpack set.
C9_SinglePredPassthrough ==
    /\ StitchedOnce =>
        \A b \in PhiBlocks : \A k \in 1..NumEntries :
            (Len(preds[b]) = 1 /\ Resolved(phis[b][k])) =>
                /\ phis[b][k].st = "pass"
                /\ phis[b][k].ins = <<HeldVal(preds[b][1], k)>>
                /\ phis[b][k].ins[1] # PhiVal(b, k)
                /\ Deref(phis, PhiVal(b, k)) = HeldVal(preds[b][1], k)
    /\ LoneEntryBlock =>
        /\ preds[entry_addr] = <<ENTRY>>
        /\ phis[entry_addr][iSrc] =
              [st |-> "pass", ins |-> <<EntryRegFile[conv][iSrc]>>]

C9_Witness ==
    /\ LoneEntryBlock
    /\ phis[entry_addr][iSrc].st = "pass"
    /\ \E b \in block_map \ {entry_addr} :
          /\ Len(preds[b]) = 1
          /\ phis[b][iSrc].st = "pass"
          /\ phis[b][iSrc].ins[1][1] = "def"

\* C10: a store of the EXIT block is removed only when the value it writes
\* is the very value ENTRY loaded for the same register from the same
\* offset; a store of any other value stays.
C10_DeadStoreSafety ==
    cc_pc = "off" =>
        \A i \in 1..Len(stores) :
            (stores[i].k = "store" /\ stores[i].removed) =>
                /\ Deref(phis, stores[i].val)
                      = EntryRegFile[conv][RegIdx[stores[i].reg]]
                /\ Deref(phis, stores[i].val)
                      = LoadInst(stores[i].off, stores[i].facet)
                /\ stores[i].off = cpu_struct_entries[RegIdx[stores[i].reg]].off

C10_Witness ==
    /\ pc = "idle"
    /\ result = "fn"
    /\ \E i \in 1..Len(stores) : stores[i].k = "store" /\ stores[i].removed
    /\ \E i \in 1..Len(stores) :
          /\ stores[i].k = "store"
          /\ ~stores[i].removed
          /\ stores[i].reg = GP(13)
          /\ Deref(phis, stores[i].val) = EntryRegFile[conv][iSrc]

\* C11: a Lift on a Function with at least one instruction returns no
\* function exactly when verification is enabled and the verifier reports
\* the produced function invalid; with verification disabled it returns the
\* function even when that function is invalid.
C11_FailureIffVerifierRejects ==
    (pc = "idle" /\ exit_block) =>
        /\ block_map # {}
        /\ result \in {"null", "fn"}
        /\ result = "null" <=> (verify_ir /\ broken)
        /\ ~verify_ir => result = "fn"
        /\ (verify_ir /\ result = "fn") => ~broken

C11_Witness ==
    /\ pc = "idle"
    /\ exit_block
    /\ ~verify_ir
    /\ broken
    /\ result = "fn"

\* the block structure a Lift builds on a Function no Lift has stitched yet
FreshStitch ==
    StitchBlocks(order, 1, block_map, regfile,
                 BranchTo([preds |-> [b \in PhiBlocks |-> <<>>],
                           term |-> [b \in Blocks |-> <<>>]],
                          ENTRY, 0, <<entry_addr>>))

\* C12: a Lift on a Function without instructions changes nothing of it: no
\* EXIT block, no successor of ENTRY, block map, entry address, register
\* files and placeholders as before; the Lift after the first instructions
\* then builds what it builds on a Function never lifted before.
C12_EmptyLiftFrame ==
    [][/\ (nlift' # nlift /\ block_map = {}) =>
             /\ result' = "null"
             /\ UNCHANGED <<conv, block_map, entry_addr, exit_block, regfile,
                            phis, preds, term, pc, changed, order, passes,
                            stores, code, ccvars>>
             /\ ~exit_block' /\ term'[ENTRY] = <<>> /\ entry_addr' = NoAddr
       /\ (nlift' # nlift /\ block_map # {} /\ term[ENTRY] = <<>>) =>
             /\ preds' = FreshStitch.preds
             /\ term' = FreshStitch.term
             /\ pc' = "fill"]_vars

C12_Witness ==
    /\ nlift = 2
    /\ pc = "idle"
    /\ result = "fn"
    /\ Len(term[ENTRY]) = 1
    /\ StitchedOnce

\* C13: every block of the function has its successors resolved at most
\* once over all the calls made on the Function.
C13_ResolvedOnce ==
    \A b \in block_map \cup {ENTRY} : Len(term[b]) <= 1

\* the blocks that branch to block b
Branchers(b) ==
    {p \in Blocks : \E i \in 1..Len(term[p]) :
        \E j \in 1..Len(term[p][i].succs) : term[p][i].succs[j] = b}

\* block b is named by a literal successor value of a block of the map
Targeted(b) ==
    \E c \in block_map : \E i \in 1..Len(SuccValues(c)) :
        SuccValues(c)[i] = ConstInt(b)

\* C14 as stated: after stitching ENTRY has no predecessor, EXIT has no
\* successor and every block of the block map has at least one predecessor.
C14_EveryBlockHasPred ==
    pc = "fill" =>
        /\ Branchers(ENTRY) = {}
        /\ term[EXIT] = <<>>
        /\ \A b \in block_map : Len(preds[b]) >= 1

\* C14 amended: after stitching ENTRY has no predecessor, EXIT has no
\* successor, the predecessors of a block are the blocks branching to it,
\* the entry-address block has ENTRY as predecessor, and any other block of
\* the block map has a predecessor exactly when a literal successor value of
\* some block names its address (for the Lift that stitches the blocks for
\* the first time).
C14_PredsAfterStitching ==
    (pc = "fill" /\ StitchedOnce) =>
        /\ Branchers(ENTRY) = {}
        /\ term[EXIT] = <<>>
        /\ \A b \in PhiBlocks :
              {preds[b][i] : i \in 1..Len(preds[b])} = Branchers(b)
        /\ ENTRY \in Branchers(entry_addr)
        /\ \A b \in Blocks \ {entry_addr} : ENTRY \notin Branchers(b)
        /\ \A b \in block_map \ {entry_addr} :
              Len(preds[b]) >= 1 <=> Targeted(b)

C14_Witness ==
    /\ pc = "fill"
    /\ \E b \in block_map : preds[b] = <<>>
    /\ \E b \in block_map \ {entry_addr} : Len(preds[b]) >= 1

\* one more full pass over the blocks from the current placeholders
OneMorePass ==
    FillBlocks(FillOrder(order), 1, conv, regfile, preds,
               [phis |-> phis, flags |-> <<>>])

\* C15: the fill loop goes on exactly after a pass in which some block made
\* progress, so every pass but the last made progress; it is left only
\* after a full pass in which no block of the map and not EXIT made
\* progress, and one more full pass would then report no progress in any
\* block and change no placeholder.
C15_FixpointExit ==
    [][/\ (pc = "fill" /\ passes' = passes + 1) =>
             /\ changed
             /\ Len(OneMorePass.flags) = Cardinality(block_map) + 1
             /\ changed' <=> (\E i \in 1..Len(OneMorePass.flags) :
                                 OneMorePass.flags[i])
             /\ changed' <=> phis' # phis
       /\ (pc = "fill" /\ pc' = "idle") =>
             /\ ~changed
             /\ passes >= 1
             /\ OneMorePass.phis = phis
             /\ \A i \in 1..Len(OneMorePass.flags) : ~OneMorePass.flags[i]
       /\ (pc = "fill" /\ ~changed) => passes' = passes]_vars

C15_Witness ==
    /\ pc = "fill"
    /\ ~changed
    /\ passes >= 3
    /\ OneMorePass.phis = phis

\* the block a successor value resolves to
Resolved1(v) == IF v[1] = "const" /\ v[2] \in block_map THEN v[2] ELSE EXIT

\* the last resolution of block b
LastTerm(b) == term[b][Len(term[b])]

\* C16: a Lift gives every block of the map one more resolution and it is,
\* for a next-instruction-pointer value that is a select, a conditional
\* branch on the select's condition to the resolution of its true value
\* and the resolution of its false value, in this order, and otherwise an
\* unconditional branch to the resolution of the value; ENTRY gets one
\* unconditional successor and EXIT none.
C16_StitchShape ==
    [][(nlift' # nlift /\ block_map # {}) =>
          /\ term'[EXIT] = <<>>
          /\ Len(term'[ENTRY]) = Len(term[ENTRY]) + 1
          /\ Len(term'[ENTRY][Len(term'[ENTRY])].succs) = 1
          /\ term'[ENTRY][Len(term'[ENTRY])].cond = 0
          /\ \A b \in block_map :
                LET next_rip == regfile[b][iRIP]
                    t == term'[b][Len(term'[b])] IN
                /\ Len(term'[b]) = Len(term[b]) + 1
                /\ next_rip[1] = "select" =>
                      /\ t.cond = next_rip[2]
                      /\ t.succs = <<Resolved1(getTrueValue(next_rip)),
                                     Resolved1(getFalseValue(next_rip))>>
                /\ next_rip[1] # "select" =>
                      /\ t.cond = 0
                      /\ t.succs = <<Resolved1(next_rip)>>]_vars

C16_Witness ==
    /\ pc = "fill"
    /\ StitchedOnce
    /\ \E b \in block_map :
          /\ regfile[b][iRIP][1] = "select"
          /\ LastTerm(b).succs[1] \in block_map
          /\ LastTerm(b).succs[2] = EXIT
    /\ \E b \in block_map :
          /\ regfile[b][iRIP][1] = "select"
          /\ LastTerm(b).succs[1] \in block_map
          /\ LastTerm(b).succs[2] \in block_map
          /\ LastTerm(b).succs[1] # LastTerm(b).succs[2]
    /\ LastTerm(ENTRY).succs = <<entry_addr>>

RetSlotsOf(k) ==
    {sl \in DOMAIN ret_val : ret_val[sl] = cc_regfile[k]}

\* C18: under HHVM every table entry leaves Pack by exactly one way, a
\* return slot for the registers the slot table names and a store through
\* the state pointer for the others, and enters Unpack by exactly one way,
\* a native argument other than the state pointer for the registers the
\* argument table names and a load through the state pointer for the
\* others.
C18_OneMechanism ==
    (conv = "HHVM" /\ cc_pc = "packed") =>
        \A k \in 1..NumEntries :
            LET e == cpu_struct_entries[k] IN
            /\ (stores[k].k = "store") # (RetSlotsOf(k) # {})
            /\ Cardinality(RetSlotsOf(k)) <= 1
            /\ (RetSlotsOf(k) # {}) <=> (PackInsIdx("HHVM", e.reg) >= 0)
            /\ RetSlotsOf(k) # {} => RetSlotsOf(k) = {PackInsIdx("HHVM", e.reg)}
            /\ stores[k].k = "store" =>
                  (stores[k].off = e.off /\ stores[k].val = cc_regfile[k])
            /\ (loaded_vals[k][1] = "arg") # (loaded_vals[k][1] = "load")
            /\ (loaded_vals[k][1] = "arg") <=>
                  (UnpackArgIdx("HHVM", e.reg) >= 0)
            /\ loaded_vals[k][1] = "arg" =>
                  /\ loaded_vals[k] = Argument(UnpackArgIdx("HHVM", e.reg))
                  /\ loaded_vals[k][2] # CpuStructParamIdx("HHVM")
            /\ loaded_vals[k][1] = "load" =>
                  loaded_vals[k] = LoadInst(e.off, e.facet)

C18_Witness ==
    /\ conv = "HHVM"
    /\ cc_pc = "packed"
    /\ \E k \in cc_written : stores[k].k = "store"
    /\ \E k \in cc_written : RetSlotsOf(k) # {}

RECURSIVE FixFrom(_, _)
\* the placeholders the fill loop ends with when every pass visits the
\* blocks of the map in the order ord, started from the placeholders ph
FixFrom(ord, ph) ==
    LET res == FillBlocks(FillOrder(ord), 1, conv, regfile, preds,
                          [phis |-> ph, flags |-> <<>>])
    IN IF PassChanged(TRUE, res.flags) THEN FixFrom(ord, res.phis)
       ELSE res.phis

\* the placeholders after one pass in the order ord
OnePass(ord) ==
    FillBlocks(FillOrder(ord), 1, conv, regfile, preds,
               [phis |-> phis, flags |-> <<>>]).phis

\* C19: for the blocks as stitched, the fill loop ends with the same
\* placeholders, resolved or not, and the same passthrough value or merge
\* inputs for each resolved one, in whatever order its passes visit the
\* blocks of the block map.
C19_OrderIndependence ==
    (pc = "fill" /\ passes = 0) =>
        \A ord \in Perms(block_map) :
            FixFrom(ord, phis) = FixFrom(order, phis)

C19_Witness ==
    /\ pc = "fill"
    /\ passes = 0
    /\ Cardinality(block_map) = NumAddrs
    /\ \E ord \in Perms(block_map) :
          /\ OnePass(ord) # OnePass(order)
          /\ FixFrom(ord, phis) = FixFrom(order, phis)
    /\ \E k \in 1..NumEntries : FixFrom(order, phis)[EXIT][k].st = "merge"

\* C20: store_insts and loaded_vals get one element per table entry, in
\* table order: both have the length of the table, element i of each is
\* about the register and facet of table entry i, and the element of
\* store_insts is null exactly for the entries Pack put into a return
\* slot.
C20_ListsAligned ==
    /\ cc_pc \in {"unpacked", "packed"} =>
        /\ Len(loaded_vals) = NumEntries
        /\ \A i \in 1..NumEntries :
              /\ loaded_vals[i] = unpack_fx[i].val
              /\ loaded_vals[i] =
                    EntryRegFile[conv][RegIdx[cpu_struct_entries[i].reg]]
    /\ cc_pc = "packed" =>
        /\ Len(stores) = NumEntries
        /\ Len(stores) = Len(loaded_vals)
        /\ \A i \in 1..NumEntries :
              /\ (stores[i] = NullInst) <=> (pack_fx[i].k = "insert")
              /\ (stores[i] = NullInst) <=> (RetSlotsOf(i) # {})
              /\ stores[i] # NullInst =>
                    /\ stores[i].k = "store"
                    /\ stores[i].reg = cpu_struct_entries[i].reg
                    /\ stores[i].facet = cpu_struct_entries[i].facet
                    /\ stores[i].val = cc_regfile[i]
              /\ conv = "SPTR" => stores[i] # NullInst

C20_Witness ==
    /\ cc_pc = "packed"
    /\ conv = "HHVM"
    /\ Cardinality({i \in 1..NumEntries : stores[i] = NullInst}) = 13
    /\ \E i \in 1..NumEntries : stores[i] # NullInst /\ i \notin cc_written

\* C21: under HHVM every argument index Unpack uses is one of the 14
\* parameters of the signature, is not the index CpuStructParamIdx returns
\* and names an integer parameter; the parameter CpuStructParamIdx names is
\* the only pointer parameter; every return slot Pack uses is one of the 14
\* elements of the return aggregate.
C21_IndexRanges ==
    (conv = "HHVM" /\ cc_pc = "packed") =>
        /\ Len(FnTypeParams("HHVM")) = 14
        /\ Len(FnTypeRet("HHVM")) = 14
        /\ CpuStructParamIdx("HHVM") = 1
        /\ \A i \in 1..Len(FnTypeParams("HHVM")) :
              (FnTypeParams("HHVM")[i] = "i8p")
                  <=> (i = CpuStructParamIdx("HHVM") + 1)
        /\ \A k \in 1..NumEntries :
              /\ unpack_fx[k].k = "arg" =>
                    /\ unpack_fx[k].idx >= 0
                    /\ unpack_fx[k].idx <= Len(FnTypeParams("HHVM")) - 1
                    /\ unpack_fx[k].idx # CpuStructParamIdx("HHVM")
                    /\ FnTypeParams("HHVM")[unpack_fx[k].idx + 1] = "i64"
                    /\ loaded_vals[k] = Argument(unpack_fx[k].idx)
              /\ pack_fx[k].k = "insert" =>
                    /\ pack_fx[k].idx >= 0
                    /\ pack_fx[k].idx <= Len(FnTypeRet("HHVM")) - 1
                    /\ FnTypeRet("HHVM")[pack_fx[k].idx + 1] = "i64"
                    /\ ret_val[pack_fx[k].idx] = pack_fx[k].val

C21_Witness ==
    /\ conv = "HHVM"
    /\ cc_pc = "packed"
    /\ \E k \in 1..NumEntries :
          unpack_fx[k].k = "arg" /\ unpack_fx[k].idx = 13
    /\ \E k \in 1..NumEntries :
          unpack_fx[k].k = "arg" /\ unpack_fx[k].idx = 2
    /\ \E k \in 1..NumEntries :
          pack_fx[k].k = "insert" /\ pack_fx[k].idx = 13
    /\ \E k \in 1..NumEntries :
          pack_fx[k].k = "insert" /\ pack_fx[k].idx = 0

====
